---- MODULE Spec2Model ----
(***************************************************************************)
(* A model of public/scripts/filters.js: the FilterHelper class, its       *)
(* criteria store (filterData), its predicate stages (filterFunctions) and *)
(* the pipeline executor (applyFilters).                                   *)
(*                                                                         *)
(* JavaScript values are tagged records of one shape, so that values of    *)
(* different JavaScript types can be compared.  Strings that the code      *)
(* inspects character by character (names, search terms) are sequences of  *)
(* one-character strings; identifiers, tag ids and keys are atomic.        *)
(***************************************************************************)
EXTENDS Naturals, Sequences, FiniteSets

VARIABLES
    filterFunctions, \* the keys of the filterFunctions field, in insertion order
    filterData,      \* the filterData field: key -> criterion
    call,            \* the last call made on the helper, with its arguments
    ret,             \* what getFilterData returned
    seen,            \* the filterData each onDataChanged run of the call found
    trace,           \* applyFilters: its input, then the list each stage returned
    fault            \* what the call threw: "none" or "TypeError"

vars == <<filterFunctions, filterData, call, ret, seen, trace, fault>>

(***************************************************************************)
(* Bounds of the model.                                                    *)
(***************************************************************************)
\* the longest entry list handed to applyFilters
MaxLen == 2

(***************************************************************************)
(* JavaScript values held by the criteria store.                           *)
(***************************************************************************)
Undefined == [t |-> "undefined", b |-> FALSE, n |-> 0, s |-> <<>>, f |-> <<>>]
Bool(x) == [t |-> "boolean", b |-> x, n |-> 0, s |-> <<>>, f |-> <<>>]
Num(x) == [t |-> "number", b |-> FALSE, n |-> x, s |-> <<>>, f |-> <<>>]
Str(x) == [t |-> "string", b |-> FALSE, n |-> 0, s |-> x, f |-> <<>>]
\* an object literal: its fields in the order they were written
Obj(x) == [t |-> "object", b |-> FALSE, n |-> 0, s |-> <<>>, f |-> x]
Field(k, v) == [k |-> k, v |-> v]

\* ToBoolean, as applied by `!x` and `if (x)`
ToBoolean(v) ==
    CASE v.t = "undefined" -> FALSE
      [] v.t = "boolean" -> v.b
      [] v.t = "number" -> v.n # 0
      [] v.t = "string" -> v.s # <<>>
      [] OTHER -> TRUE

\* decimal digits of the small numbers the model uses
DigitStr == [n \in 0..9 |->
    CASE n = 0 -> "0" [] n = 1 -> "1" [] n = 2 -> "2" [] n = 3 -> "3"
      [] n = 4 -> "4" [] n = 5 -> "5" [] n = 6 -> "6" [] n = 7 -> "7"
      [] n = 8 -> "8" [] OTHER -> "9"]

HasField(v, k) == v.t = "object" /\ \E i \in 1..Len(v.f) : v.f[i].k = k
GetField(v, k) == v.f[CHOOSE i \in 1..Len(v.f) : v.f[i].k = k].v

(***************************************************************************)
(* JSON.stringify: undefined for undefined, otherwise the text, here a     *)
(* sequence of tokens.  An object's fields are written in insertion order. *)
(***************************************************************************)
RECURSIVE JoinTags(_)
JoinTags(a) ==
    IF a = <<>> THEN <<>>
    ELSE <<"\"", a[1], "\"">> \o (IF Len(a) > 1 THEN <<",">> ELSE <<>>) \o JoinTags(Tail(a))

RECURSIVE JoinFields(_)
JoinFields(f) ==
    IF f = <<>> THEN <<>>
    ELSE <<"\"", f[1].k, "\"", ":", "[">> \o JoinTags(f[1].v) \o <<"]">>
         \o (IF Len(f) > 1 THEN <<",">> ELSE <<>>) \o JoinFields(Tail(f))

JSONstringify(v) ==
    CASE v.t = "undefined" -> [undef |-> TRUE, text |-> <<>>]
      [] v.t = "boolean" -> [undef |-> FALSE, text |-> IF v.b THEN <<"true">> ELSE <<"false">>]
      [] v.t = "number" -> [undef |-> FALSE, text |-> <<DigitStr[v.n]>>]
      [] v.t = "string" -> [undef |-> FALSE, text |-> <<"\"">> \o v.s \o <<"\"">>]
      [] OTHER -> [undef |-> FALSE, text |-> <<"{">> \o JoinFields(v.f) \o <<"}">>]

(***************************************************************************)
(* FILTER_TYPES and the two tables of a FilterHelper.                      *)
(***************************************************************************)
FILTER_TYPES == [SEARCH |-> "search", TAG |-> "tag", FAV |-> "fav", GROUP |-> "group",
                 WORLD_INFO_SEARCH |-> "world_info_search"]

\* the initial value of the filterFunctions field: its keys, in insertion order
filterFunctionsInit == <<FILTER_TYPES.SEARCH, FILTER_TYPES.GROUP, FILTER_TYPES.FAV,
                     FILTER_TYPES.TAG, FILTER_TYPES.WORLD_INFO_SEARCH,
                     "hide_characters_present_in_deck">>

\* the initial value of the filterData field
filterDataInit ==
    [k \in {"search", "group", "fav", "tag", "world_info_search"} |->
        CASE k = "search" -> Str(<<>>)
          [] k = "group" -> Bool(FALSE)
          [] k = "fav" -> Bool(FALSE)
          [] k = "tag" -> Obj(<<Field("excluded", <<>>), Field("selected", <<>>)>>)
          [] OTHER -> Str(<<>>)]

\* this.filterData[filterType]: undefined for a key the object does not have
Lookup(fd, k) == IF k \in DOMAIN fd THEN fd[k] ELSE Undefined

(***************************************************************************)
(* Primitive values found inside entries: identifiers, favourite flags and *)
(* deck members.  Their strings are atomic.                                *)
(***************************************************************************)
PUndef == [t |-> "undefined", b |-> FALSE, n |-> 0, s |-> ""]
PBool(x) == [t |-> "boolean", b |-> x, n |-> 0, s |-> ""]
PNum(x) == [t |-> "number", b |-> FALSE, n |-> x, s |-> ""]
PStr(x) == [t |-> "string", b |-> FALSE, n |-> 0, s |-> x]

\* ToBoolean of a primitive
Truthy(p) ==
    CASE p.t = "undefined" -> FALSE
      [] p.t = "boolean" -> p.b
      [] p.t = "number" -> p.n # 0
      [] OTHER -> p.s # ""

\* String(x)
String(p) ==
    CASE p.t = "undefined" -> "undefined"
      [] p.t = "boolean" -> (IF p.b THEN "true" ELSE "false")
      [] p.t = "number" -> DigitStr[p.n]
      [] OTHER -> p.s

\* parseInt(x): NaN unless x is a number or a string of one digit (the model's
\* strings are either one digit or start with a letter)
parseInt(p) ==
    CASE p.t = "number" -> [nan |-> FALSE, n |-> p.n]
      [] p.t = "string" /\ (\E d \in 0..9 : DigitStr[d] = p.s) ->
            [nan |-> FALSE, n |-> CHOOSE d \in 0..9 : DigitStr[d] = p.s]
      [] OTHER -> [nan |-> TRUE, n |-> 0]

\* x == "true" (abstract equality): a boolean or a number is compared as a
\* number with NaN, undefined equals only null and undefined
LooseEqualsTrueString(p) == p.t = "string" /\ p.s = "true"

(***************************************************************************)
(* Character-level strings: names and search terms.                        *)
(***************************************************************************)
toLowerCaseChar(c) == IF c = "A" THEN "a" ELSE IF c = "B" THEN "b" ELSE c
RECURSIVE toLowerCase(_)
toLowerCase(s) ==
    IF s = <<>> THEN <<>> ELSE <<toLowerCaseChar(s[1])>> \o toLowerCase(Tail(s))

RECURSIVE trimStart(_)
trimStart(s) == IF s # <<>> /\ s[1] = " " THEN trimStart(Tail(s)) ELSE s
RECURSIVE trimEnd(_)
trimEnd(s) == IF s # <<>> /\ s[Len(s)] = " " THEN trimEnd(SubSeq(s, 1, Len(s) - 1)) ELSE s
trim(s) == trimEnd(trimStart(s))

\* String.prototype.includes
includes(hay, needle) ==
    \E i \in 0..Len(hay) : i + Len(needle) <= Len(hay)
                           /\ SubSeq(hay, i + 1, i + Len(needle)) = needle

(***************************************************************************)
(* Entries.  A field that an entry may lack carries a `has` flag.          *)
(***************************************************************************)
NoName == [has |-> FALSE, s |-> <<>>]
Name(s) == [has |-> TRUE, s |-> s]
NoAvatar == [has |-> FALSE, s |-> ""]
Avatar(s) == [has |-> TRUE, s |-> s]
NoCharacters == [has |-> FALSE, list |-> <<>>]
Characters(l) == [has |-> TRUE, list |-> l]
NoUid == [has |-> FALSE, n |-> 0]
Uid(n) == [has |-> TRUE, n |-> n]
NoItem == [has |-> FALSE, name |-> NoName, fav |-> PUndef, avatar |-> NoAvatar,
           characters |-> NoCharacters]
Item(name, fav, avatar, characters) ==
    [has |-> TRUE, name |-> name, fav |-> fav, avatar |-> avatar, characters |-> characters]
Entry(type, id, uid, item) == [type |-> type, id |-> id, uid |-> uid, item |-> item]

\* the entries lists are drawn from
Entries ==
    { \* a favourite character, tagged t1 and t2, member of the deck d1
      Entry("character", PNum(1), NoUid,
            Item(Name(<<"A", "l">>), PBool(TRUE), Avatar("a1.png"), NoCharacters)),
      \* a character whose favourite flag is the string "false", tagged t1
      Entry("character", PNum(2), NoUid,
            Item(Name(<<"B">>), PStr("false"), Avatar("a2.png"), NoCharacters)),
      \* a character with no payload
      Entry("character", PNum(3), NoUid, NoItem),
      \* a group whose identifier is the string "1", flagged "true", tagged t2
      Entry("group", PStr("1"), NoUid,
            Item(Name(<<"a">>), PStr("true"), NoAvatar, NoCharacters)),
      \* a deck holding the character "1"
      Entry("deck", PStr("d1"), NoUid,
            Item(Name(<<"a", "l">>), PNum(1), NoAvatar, Characters(<<PStr("1")>>))),
      \* a deck holding the deck d1 and, as a number, the character 2
      Entry("deck", PStr("d2"), NoUid,
            Item(NoName, PBool(FALSE), NoAvatar, Characters(<<PStr("d1"), PNum(2)>>))),
      \* a deck with no member list
      Entry("deck", PStr("d3"), NoUid,
            Item(Name(<<"b">>), PBool(TRUE), NoAvatar, NoCharacters)),
      \* a deck with no payload
      Entry("deck", PStr("d4"), NoUid, NoItem),
      \* a world-info record: a uid, no type, no id, no payload
      Entry("undefined", PUndef, Uid(7), NoItem),
      \* a tag-bearing item whose identifier is the string "2", tagged t1 and t2
      Entry("tag", PStr("2"), Uid(8),
            Item(Name(<<"a">>), PUndef, NoAvatar, NoCharacters)) }

RECURSIVE ListsOfLen(_)
ListsOfLen(n) ==
    IF n = 0 THEN {<<>>}
    ELSE {Append(l, e) : l \in ListsOfLen(n - 1), e \in Entries}

Lists == UNION {ListsOfLen(n) : n \in 0..MaxLen}

(***************************************************************************)
(* External collaborators (power-user.js, tags.js).                        *)
(***************************************************************************)
\* tags.js tag_map: lookup key -> the tag ids attached (or something that is
\* no array)
tag_map ==
    [k \in {"a1.png", "a2.png", "1", "2", "d1"} |->
        CASE k = "a1.png" -> [isArray |-> TRUE, tags |-> <<"t1", "t2">>]
          [] k = "a2.png" -> [isArray |-> TRUE, tags |-> <<"t1">>]
          [] k = "1" -> [isArray |-> TRUE, tags |-> <<"t2">>]
          [] k = "2" -> [isArray |-> TRUE, tags |-> <<"t2", "t1">>]
          [] OTHER -> [isArray |-> FALSE, tags |-> <<>>]]

\* fuzzySearchCharacters(term): the integer ids of the matching characters
fuzzySearchCharacters(term) == IF includes(<<"a", "l">>, term) THEN {1} ELSE {}
\* fuzzySearchGroups(term): the string ids of the matching groups
fuzzySearchGroups(term) == IF includes(<<"a">>, term) THEN {"1"} ELSE {}
\* fuzzySearchWorldInfo(data, term): the uids of the matching records of data
fuzzySearchWorldInfo(data, term) ==
    {data[i].uid.n : i \in {j \in 1..Len(data) : data[j].uid.has /\ data[j].uid.n = 7}}

(***************************************************************************)
(* The predicate stages.  A stage returns a list, or throws a TypeError;    *)
(* Array.prototype.filter is SelectSeq.                                     *)
(***************************************************************************)
Return(list) == [ok |-> TRUE, list |-> list]
Throw == [ok |-> FALSE, list |-> <<>>]

\* searchFilter's inner getIsValidSearch(entity)
getIsValidSearch(entity, searchValue, fuzzy_search) ==
    IF fuzzy_search
    THEN IF entity.type = "character"
         THEN ~parseInt(entity.id).nan
              /\ parseInt(entity.id).n \in fuzzySearchCharacters(searchValue)
         ELSE IF entity.type = "group"
              THEN String(entity.id) \in fuzzySearchGroups(searchValue)
              ELSE FALSE
    ELSE entity.item.has /\ entity.item.name.has
         /\ includes(toLowerCase(entity.item.name.s), searchValue)

\* FilterHelper.searchFilter; a truthy criterion that is no string has no trim()
searchFilter(fd, fuzzy_search, data) ==
    LET term == Lookup(fd, FILTER_TYPES.SEARCH) IN
    IF ~ToBoolean(term) THEN Return(data)
    ELSE IF term.t # "string" THEN Throw
    ELSE LET searchValue == toLowerCase(trim(term.s)) IN
         Return(SelectSeq(data, LAMBDA entity : getIsValidSearch(entity, searchValue, fuzzy_search)))

\* FilterHelper.groupFilter
groupFilter(fd, data) ==
    IF ~ToBoolean(Lookup(fd, FILTER_TYPES.GROUP)) THEN Return(data)
    ELSE Return(SelectSeq(data, LAMBDA entity : entity.type = "group"))

\* the predicate of favFilter: entity.item.fav || entity.item.fav == "true"
isFav(entity) == Truthy(entity.item.fav) \/ LooseEqualsTrueString(entity.item.fav)

\* favFilter without its early return: it filters whatever the criterion is
favFilterAlways(fd, data) ==
    IF \E i \in 1..Len(data) : ~data[i].item.has THEN Throw
    ELSE Return(SelectSeq(data, isFav))

\* FilterHelper.favFilter; entity.item.fav of an entry with no item throws
favFilter(fd, data) ==
    IF ~ToBoolean(Lookup(fd, FILTER_TYPES.FAV)) THEN Return(data)
    ELSE IF \E i \in 1..Len(data) : ~data[i].item.has THEN Throw
    ELSE Return(SelectSeq(data, isFav))

\* the lookupValue of tagFilter's isElementTagged (the entry must have an item
\* if it is a character); an absent avatar is the key "undefined"
lookupValue(entity) ==
    IF entity.type = "character"
    THEN (IF entity.item.avatar.has THEN entity.item.avatar.s ELSE "undefined")
    ELSE String(entity.id)

\* tagFilter's inner isElementTagged(entity, tagId)
isElementTagged(entity, tagId) ==
    LET key == lookupValue(entity) IN
    /\ key \in DOMAIN tag_map
    /\ tag_map[key].isArray
    /\ \E i \in 1..Len(tag_map[key].tags) : tag_map[key].tags[i] = tagId

\* getIsTagged with TAG_LOGIC_AND switched to false: one selected tag is enough
getIsTaggedOr(entity, selected, excluded) ==
    LET isTagged == \E i \in 1..Len(selected) : isElementTagged(entity, selected[i])
        isExcluded == \E i \in 1..Len(excluded) : isElementTagged(entity, excluded[i])
    IN  IF isExcluded THEN FALSE
        ELSE IF Len(selected) > 0 /\ ~isTagged THEN FALSE
        ELSE TRUE

\* tagFilter's inner getIsTagged(entity), TAG_LOGIC_AND being true
getIsTagged(entity, selected, excluded) ==
    LET tagFlags == [i \in 1..Len(selected) |-> isElementTagged(entity, selected[i])]
        trueFlags == {i \in 1..Len(selected) : tagFlags[i]}
        isTagged == Len(selected) = Cardinality(trueFlags)
        isExcluded == \E i \in 1..Len(excluded) : isElementTagged(entity, excluded[i])
    IN  IF isExcluded THEN FALSE
        ELSE IF Len(selected) > 0 /\ ~isTagged THEN FALSE
        ELSE TRUE

\* FilterHelper.tagFilter.  It throws where the code reads a property of
\* undefined: selected.length or excluded.length of a criterion lacking the
\* field, excluded.map once an entry is examined, entity.item.avatar of a
\* character with no item.
tagFilter(fd, data) ==
    LET tag == Lookup(fd, FILTER_TYPES.TAG) IN
    IF ~HasField(tag, "selected") THEN Throw
    ELSE LET selected == GetField(tag, "selected") IN
         IF selected = <<>> /\ ~HasField(tag, "excluded") THEN Throw
         ELSE IF selected = <<>> /\ GetField(tag, "excluded") = <<>> THEN Return(data)
         ELSE IF data = <<>> THEN Return(data)
         ELSE IF ~HasField(tag, "excluded") THEN Throw
         ELSE IF \E i \in 1..Len(data) : data[i].type = "character" /\ ~data[i].item.has
              THEN Throw
         ELSE Return(SelectSeq(data,
                  LAMBDA entity : getIsTagged(entity, selected, GetField(tag, "excluded"))))

\* FilterHelper.wiSearchFilter
wiSearchFilter(fd, data) ==
    LET term == Lookup(fd, FILTER_TYPES.WORLD_INFO_SEARCH) IN
    IF ~ToBoolean(term) THEN Return(data)
    ELSE LET fuzzySearchResults == fuzzySearchWorldInfo(data, term) IN
         Return(SelectSeq(data,
             LAMBDA entity : entity.uid.has /\ entity.uid.n \in fuzzySearchResults))

\* the characterIds of hideCharactersAlreadyInDeck: the members of the decks
\* of data, and undefined for a deck whose item has no characters
characterIds(data) ==
    UNION {IF data[i].item.characters.has
           THEN {data[i].item.characters.list[j] : j \in 1..Len(data[i].item.characters.list)}
           ELSE {PUndef}
           : i \in {j \in 1..Len(data) : data[j].type = "deck"}}

\* the filter's predicate with its test inverted (true === ... instead of false === ...)
inDeck(data, item) == PStr(String(item.id)) \in characterIds(data)

\* the predicate of hideCharactersAlreadyInDeck's filter
notInDeck(data, item) == PStr(String(item.id)) \notin characterIds(data)

\* FilterHelper.hideCharactersAlreadyInDeck; b.item.characters of a deck with
\* no item throws
hideCharactersAlreadyInDeck(data) ==
    IF \E i \in 1..Len(data) : data[i].type = "deck" /\ ~data[i].item.has THEN Throw
    ELSE Return(SelectSeq(data, LAMBDA item : notInDeck(data, item)))

\* the function registered in filterFunctions under `key`, applied to data
Stage(key, fd, fuzzy_search, data) ==
    CASE key = FILTER_TYPES.SEARCH -> searchFilter(fd, fuzzy_search, data)
      [] key = FILTER_TYPES.GROUP -> groupFilter(fd, data)
      [] key = FILTER_TYPES.FAV -> favFilter(fd, data)
      [] key = FILTER_TYPES.TAG -> tagFilter(fd, data)
      [] key = FILTER_TYPES.WORLD_INFO_SEARCH -> wiSearchFilter(fd, data)
      [] OTHER -> hideCharactersAlreadyInDeck(data)

\* the reduce of applyFilters from stage i on: tr holds the input and the
\* lists the stages before i returned
RECURSIVE Reduce(_, _, _, _, _)
Reduce(fns, i, fd, fuzzy_search, tr) ==
    IF i > Len(fns) THEN [trace |-> tr, fault |-> "none"]
    ELSE LET r == Stage(fns[i], fd, fuzzy_search, tr[Len(tr)]) IN
         IF ~r.ok THEN [trace |-> tr, fault |-> "TypeError"]
         ELSE Reduce(fns, i + 1, fd, fuzzy_search, Append(tr, r.list))

\* FilterHelper.applyFilters: the lists that flow through the stages, and
\* whether a stage threw; the returned list is the last of the trace
applyFilters(fns, fd, fuzzy_search, data) == Reduce(fns, 1, fd, fuzzy_search, <<data>>)

(***************************************************************************)
(* The calls made on a FilterHelper.                                       *)
(***************************************************************************)
\* a key that is no FILTER_TYPES value
UnknownKind == "unknown_kind"

Kinds == {FILTER_TYPES.SEARCH, FILTER_TYPES.TAG, FILTER_TYPES.FAV, FILTER_TYPES.GROUP,
          FILTER_TYPES.WORLD_INFO_SEARCH}

TagCriterion(selected, excluded) ==
    Obj(<<Field("selected", selected), Field("excluded", excluded)>>)

\* the values the calls of the model pass for a kind
CriteriaValues(kind) ==
    CASE kind = FILTER_TYPES.SEARCH -> {Str(<<>>), Str(<<"a">>), Str(<<" ", "A", "L">>), Num(5)}
      [] kind = FILTER_TYPES.GROUP -> {Bool(FALSE), Bool(TRUE)}
      [] kind = FILTER_TYPES.FAV -> {Bool(FALSE), Bool(TRUE)}
      [] kind = FILTER_TYPES.TAG ->
            { Obj(<<Field("excluded", <<>>), Field("selected", <<>>)>>),
              TagCriterion(<<>>, <<>>),
              TagCriterion(<<"t1", "t2">>, <<>>),
              TagCriterion(<<"t1">>, <<"t2">>),
              TagCriterion(<<>>, <<"t2">>),
              Obj(<<Field("selected", <<"t1">>)>>) }
      [] kind = FILTER_TYPES.WORLD_INFO_SEARCH -> {Str(<<>>), Str(<<"a">>)}
      [] OTHER -> {Undefined, Str(<<"a">>)}

NoCall == [op |-> "new", filterType |-> "", data |-> Undefined,
           suppressDataChanged |-> FALSE, oldData |-> Undefined, fuzzy_search |-> FALSE]

\* an assignment that ignores a key the object does not have yet
AssignKnownOnly(fd, filterType, data) ==
    [k \in DOMAIN fd |-> IF k = filterType THEN data ELSE fd[k]]

\* an assignment that replaces the whole object by the one key
AssignFresh(fd, filterType, data) == [k \in {filterType} |-> data]

\* the filterData object after this.filterData[filterType] = data
Assign(fd, filterType, data) ==
    [k \in DOMAIN fd \cup {filterType} |-> IF k = filterType THEN data ELSE fd[k]]

\* the condition under which setFilterData runs this.onDataChanged()
dataChanged(oldData, data, suppressDataChanged) ==
    JSONstringify(oldData) # JSONstringify(data) /\ ~suppressDataChanged

\* onDataChanged run before the assignment: it finds the old filterData
onDataChangedRunsFirst(fd, filterType, data, suppressDataChanged) ==
    IF dataChanged(Lookup(fd, filterType), data, suppressDataChanged) THEN <<fd>> ELSE <<>>

\* the filterData found by the onDataChanged runs of setFilterData, which
\* assigns before it compares
onDataChangedRuns(fd, filterType, data, suppressDataChanged) ==
    IF dataChanged(Lookup(fd, filterType), data, suppressDataChanged)
    THEN <<Assign(fd, filterType, data)>>
    ELSE <<>>

Init ==
    /\ filterFunctions = filterFunctionsInit
    /\ filterData = filterDataInit
    /\ call = NoCall
    /\ ret = Undefined
    /\ seen = <<>>
    /\ trace = <<>>
    /\ fault = "none"

\* FilterHelper.setFilterData(filterType, data, suppressDataChanged)
setFilterData(filterType, data, suppressDataChanged) ==
    /\ filterData' = Assign(filterData, filterType, data)
    /\ seen' = onDataChangedRuns(filterData, filterType, data, suppressDataChanged)
    /\ call' = [op |-> "setFilterData", filterType |-> filterType, data |-> data,
                suppressDataChanged |-> suppressDataChanged,
                oldData |-> Lookup(filterData, filterType), fuzzy_search |-> FALSE]
    /\ ret' = Undefined
    /\ trace' = <<>>
    /\ fault' = "none"
    /\ UNCHANGED filterFunctions

\* FilterHelper.getFilterData(filterType)
getFilterData(filterType) ==
    /\ ret' = Lookup(filterData, filterType)
    /\ call' = [NoCall EXCEPT !.op = "getFilterData", !.filterType = filterType]
    /\ seen' = <<>>
    /\ trace' = <<>>
    /\ fault' = "none"
    /\ UNCHANGED <<filterFunctions, filterData>>

\* FilterHelper.applyFilters(data), power_user.fuzzy_search being fuzzy_search
applyFiltersCall(data, fuzzy_search) ==
    LET r == applyFilters(filterFunctions, filterData, fuzzy_search, data) IN
    /\ trace' = r.trace
    /\ fault' = r.fault
    /\ call' = [NoCall EXCEPT !.op = "applyFilters", !.fuzzy_search = fuzzy_search]
    /\ ret' = Undefined
    /\ seen' = <<>>
    /\ UNCHANGED <<filterFunctions, filterData>>

\* the lists applyFilters is called with between the calls on the store
SampleLists == {<<>>} \cup {<<e>> : e \in Entries}

\* The helper under any sequence of calls.
Next ==
    \/ \E filterType \in Kinds \cup {UnknownKind} :
       \E data \in CriteriaValues(filterType) :
       \E suppressDataChanged \in BOOLEAN :
          setFilterData(filterType, data, suppressDataChanged)
    \/ \E filterType \in Kinds \cup {UnknownKind} : getFilterData(filterType)
    \/ \E data \in SampleLists : \E fuzzy_search \in BOOLEAN :
          applyFiltersCall(data, fuzzy_search)

Spec == Init /\ [][Next]_vars

(***************************************************************************)
(* The pipeline as a function of a criteria snapshot and a list: the       *)
(* snapshot is any store the calls above can leave, applyFilters is called *)
(* once on any list, and then once more on the list it returned.           *)
(***************************************************************************)
Snapshots ==
    {[k \in Kinds |->
        CASE k = FILTER_TYPES.SEARCH -> s
          [] k = FILTER_TYPES.GROUP -> g
          [] k = FILTER_TYPES.FAV -> f
          [] k = FILTER_TYPES.TAG -> t
          [] OTHER -> w] :
        s \in CriteriaValues(FILTER_TYPES.SEARCH), g \in CriteriaValues(FILTER_TYPES.GROUP),
        f \in CriteriaValues(FILTER_TYPES.FAV), t \in CriteriaValues(FILTER_TYPES.TAG),
        w \in CriteriaValues(FILTER_TYPES.WORLD_INFO_SEARCH)}

InitPipeline ==
    /\ filterFunctions = filterFunctionsInit
    /\ filterData \in Snapshots
    /\ call = NoCall
    /\ ret = Undefined
    /\ seen = <<>>
    /\ trace = <<>>
    /\ fault = "none"

\* the first call: applyFilters(data)
FirstApply ==
    /\ call.op = "new"
    /\ \E data \in Lists : \E fuzzy_search \in BOOLEAN : applyFiltersCall(data, fuzzy_search)

\* the second call: applyFilters of the list the first call returned; its
\* trace is kept after the first call's
ReApply ==
    /\ call.op = "applyFilters"
    /\ fault = "none"
    /\ LET r == applyFilters(filterFunctions, filterData, call.fuzzy_search, trace[Len(trace)])
       IN /\ trace' = trace \o r.trace
          /\ fault' = r.fault
    /\ call' = [call EXCEPT !.op = "applyFilters again"]
    /\ UNCHANGED <<filterFunctions, filterData, ret, seen>>

NextPipeline == FirstApply \/ ReApply

SpecPipeline == InitPipeline /\ [][NextPipeline]_vars

(***************************************************************************)
(* Properties of the criteria store, checked under Spec.                   *)
(***************************************************************************)
\* deep structural equality of two criteria: the same type and contents, an
\* object's fields compared by key whatever the order they were written in
DeepEqual(a, b) ==
    /\ a.t = b.t
    /\ IF a.t = "object"
       THEN /\ {a.f[i].k : i \in 1..Len(a.f)} = {b.f[i].k : i \in 1..Len(b.f)}
            /\ \A i \in 1..Len(a.f) : GetField(b, a.f[i].k) = a.f[i].v
       ELSE a = b

\* C2: a setFilterData call runs the Change Notifier zero times when the value
\* is deep-structurally equal to the stored one or suppress is true, and
\* exactly once when the value differs and suppress is false.
C2_NotifiesIffDeepDifferent ==
    call.op = "setFilterData" =>
        Len(seen) = IF DeepEqual(call.oldData, call.data) \/ call.suppressDataChanged
                    THEN 0 ELSE 1

\* C4 as stated: a call of getFilterData or setFilterData with a kind that is
\* no FILTER_TYPES value ends in the UnknownFilterKind fault, leaves the store
\* without that key and does not run the Change Notifier.
C4_UnknownKindFaults ==
    (call.op \in {"getFilterData", "setFilterData"} /\ call.filterType \notin Kinds) =>
        /\ fault = "UnknownFilterKind"
        /\ call.filterType \notin DOMAIN filterData
        /\ seen = <<>>

\* C4 as amended: such a call raises no fault.  getFilterData returns the
\* value stored under the key, undefined when there is none, and runs no
\* notifier; setFilterData stores the value under the key, adding it, and
\* runs the notifier once when the value differs from the one stored before
\* (undefined when there was none) and suppress is false, else not at all.
C4_UnknownKindIsStored ==
    (call.op \in {"getFilterData", "setFilterData"} /\ call.filterType \notin Kinds) =>
        /\ fault = "none"
        /\ call.op = "getFilterData" =>
              /\ ret = (IF call.filterType \in DOMAIN filterData
                        THEN filterData[call.filterType] ELSE Undefined)
              /\ seen = <<>>
        /\ call.op = "setFilterData" =>
              /\ call.filterType \in DOMAIN filterData
              /\ filterData[call.filterType] = call.data
              /\ Len(seen) = IF call.oldData # call.data /\ ~call.suppressDataChanged
                             THEN 1 ELSE 0

\* a setFilterData call with an unknown kind has stored its value and run the
\* notifier
C4_Witness ==
    /\ call.op = "setFilterData"
    /\ call.filterType = UnknownKind
    /\ UnknownKind \in DOMAIN filterData
    /\ Len(seen) = 1

\* C9 as stated: the stage keys are those fixed at construction and the store
\* holds one value for each stage key and no other key.
C9_StoreKeysAreStageKeys ==
    /\ filterFunctions = filterFunctionsInit
    /\ DOMAIN filterData = {filterFunctions[i] : i \in 1..Len(filterFunctions)}

\* C9 as amended: the stage keys are those fixed at construction; the store
\* holds a value for each of the five FILTER_TYPES kinds; a setFilterData
\* call adds the key it is given when the store lacks it, and no call removes
\* or adds any other key.
C9_KeysOnlyGrowBySet ==
    /\ [](filterFunctions = filterFunctionsInit /\ Kinds \subseteq DOMAIN filterData)
    /\ [][DOMAIN filterData' =
            DOMAIN filterData \cup (IF call'.op = "setFilterData"
                                    THEN {call'.filterType} ELSE {})]_vars

\* a setFilterData call has added a sixth key to the store, and the deck
\* stage still has no criterion
C9_Witness ==
    /\ call.op = "setFilterData"
    /\ call.oldData = Undefined
    /\ DOMAIN filterData = Kinds \cup {UnknownKind}
    /\ "hide_characters_present_in_deck" \notin DOMAIN filterData

\* C10: when setFilterData returns, and at every run of the Change Notifier
\* inside it, the store holds the new value for the kind and the old values
\* for every other kind.
C10_StoredBeforeNotified ==
    [][call'.op = "setFilterData" =>
         /\ Lookup(filterData', call'.filterType) = call'.data
         /\ \A k \in DOMAIN filterData \ {call'.filterType} :
               k \in DOMAIN filterData' /\ filterData'[k] = filterData[k]
         /\ \A i \in 1..Len(seen') :
               /\ Lookup(seen'[i], call'.filterType) = call'.data
               /\ seen'[i] = filterData']_vars

\* the notifier has run in a call that replaced a TAG criterion by a
\* different one
C10_Witness ==
    /\ call.op = "setFilterData"
    /\ call.filterType = FILTER_TYPES.TAG
    /\ ~DeepEqual(call.oldData, call.data)
    /\ Len(seen) = 1
    /\ filterData[FILTER_TYPES.TAG] = call.data

(***************************************************************************)
(* Properties of the pipeline, checked under SpecPipeline.  After a call   *)
(* of applyFilters that did not throw, trace[1] is its input and           *)
(* trace[i + 1] the list stage i returned, the stages being search, group, *)
(* fav, tag, world_info_search and hide_characters_present_in_deck; after  *)
(* the second call trace[8] .. trace[14] are the same for that call.       *)
(***************************************************************************)
Applied == call.op \in {"applyFilters", "applyFilters again"}

\* every criterion has its default value
AllDefault ==
    /\ filterData[FILTER_TYPES.SEARCH] = Str(<<>>)
    /\ filterData[FILTER_TYPES.GROUP] = Bool(FALSE)
    /\ filterData[FILTER_TYPES.FAV] = Bool(FALSE)
    /\ DeepEqual(filterData[FILTER_TYPES.TAG], TagCriterion(<<>>, <<>>))
    /\ filterData[FILTER_TYPES.WORLD_INFO_SEARCH] = Str(<<>>)

\* the stringified identifier of e is a member of a deck-kind entry of data
MemberOfADeck(data, e) ==
    \E i \in 1..Len(data) :
       /\ data[i].type = "deck"
       /\ data[i].item.has
       /\ \E j \in 1..Len(data[i].item.characters.list) :
             data[i].item.characters.list[j] = PStr(String(e.id))

TagActive ==
    /\ HasField(filterData[FILTER_TYPES.TAG], "selected")
    /\ HasField(filterData[FILTER_TYPES.TAG], "excluded")
    /\ \/ GetField(filterData[FILTER_TYPES.TAG], "selected") # <<>>
       \/ GetField(filterData[FILTER_TYPES.TAG], "excluded") # <<>>

\* the entry carries every selected tag and no excluded tag
PassesTags(e) ==
    /\ \A i \in 1..Len(GetField(filterData[FILTER_TYPES.TAG], "selected")) :
          isElementTagged(e, GetField(filterData[FILTER_TYPES.TAG], "selected")[i])
    /\ \A i \in 1..Len(GetField(filterData[FILTER_TYPES.TAG], "excluded")) :
          ~isElementTagged(e, GetField(filterData[FILTER_TYPES.TAG], "excluded")[i])

\* C3: under a TAG criterion that is not empty, the list the tag stage
\* returns holds exactly the entries of its input that carry every selected
\* tag and no excluded tag, in their order.
C3_TagStageKeepsSelectedNotExcluded ==
    (Applied /\ TagActive /\ Len(trace) >= 5) =>
        trace[5] = SelectSeq(trace[4], PassesTags)

\* the tag stage has kept one entry and removed another under two selected tags
C3_Witness ==
    /\ call.op = "applyFilters"
    /\ Len(trace) >= 5
    /\ HasField(filterData[FILTER_TYPES.TAG], "selected")
    /\ Len(GetField(filterData[FILTER_TYPES.TAG], "selected")) = 2
    /\ Len(trace[4]) = 2
    /\ Len(trace[5]) = 1

\* C5: applyFilters of the list applyFilters returned, under the same
\* criteria, returns that list element for element.
C5_Idempotent ==
    call.op = "applyFilters again" =>
        /\ fault = "none"
        /\ Len(trace) = 14
        /\ trace[14] = trace[7]
        /\ trace[8] = trace[7]

\* the second call has returned the list of the first, from which the deck
\* stage had removed a deck
C5_Witness ==
    /\ call.op = "applyFilters again"
    /\ fault = "none"
    /\ trace[7] # <<>>
    /\ \E i \in 1..Len(trace[6]) :
          /\ trace[6][i].type = "deck"
          /\ \A j \in 1..Len(trace[7]) : trace[7][j] # trace[6][i]

\* C6: applyFilters returns a list and throws nothing, whatever the entries
\* and the criteria.
C6_NeverThrows == Applied => fault = "none"

\* C7: the list the deck stage returns is its input without the
\* character-kind entries whose stringified identifier is a member of a deck
\* of that input; no entry of another kind is removed.
C7_DeckStageRemovesOnlyCharacters ==
    (Applied /\ fault = "none") =>
        trace[7] = SelectSeq(trace[6],
                       LAMBDA e : ~(e.type = "character" /\ MemberOfADeck(trace[6], e)))

\* C8: under FAV true the list the fav stage returns holds exactly the
\* entries of its input whose favourite flag is the boolean true or the
\* string "true"; under FAV false it is the input.
C8_FavStageKeepsTrueFlags ==
    (Applied /\ fault = "none") =>
        trace[4] = IF filterData[FILTER_TYPES.FAV] = Bool(TRUE)
                   THEN SelectSeq(trace[3],
                            LAMBDA e : e.item.has /\ e.item.fav \in {PBool(TRUE), PStr("true")})
                   ELSE trace[3]

====
